---- MODULE Spec2Model ----
(***************************************************************************)
(* Model of kbisect/deployment/deployer.py: the SlaveDeployer workflow.    *)
(*                                                                         *)
(* The deployer is single threaded.  The model keeps one program counter   *)
(* (pc), a stack of return labels, and one register per kind of returned   *)
(* value.  Every remote command (_ssh_command -> ssh_client.run_command)   *)
(* and the rsync subprocess are answered by the environment, which picks   *)
(* an exit code, an output, or an exception.  hist is the history of the   *)
(* current top-level invocation: calls, returns, raised exceptions,        *)
(* remote operations issued and completed, and deploy_full's error log.    *)
(*                                                                         *)
(* A shell command is a tuple of the string pieces the f-string joins.     *)
(***************************************************************************)
EXTENDS Integers, Sequences, FiniteSets, TLC

\* ---------------------------------------------------------------- constants
DEFAULT_DEPLOY_PATH == "/root/kernel-bisect/lib"
DEFAULT_STATE_DIR == "/var/lib/kernel-bisect"
DEFAULT_SSH_TIMEOUT == 30
CONNECTIVITY_TIMEOUT == 300
INIT_TIMEOUT == 60
RSYNC_TIMEOUT == 60

\* ------------------------------------------------------------------- bounds
\* Remote exit codes range over 0..MaxExit.
MaxExit == 1

ExitCodes == 0..MaxExit

\* Deploy paths a deployer may be constructed with: the default, and one that
\* shlex.quote has to quote.
SpacedPath == "/srv/kernel bisect/lib"

DeployPaths == {DEFAULT_DEPLOY_PATH, SpacedPath}

\* Outputs the remote shell may produce (sequences of characters).
ExpectedToken == <<"t", "e", "s", "t">>

Stdouts ==
  { <<>>,
    <<"t", "e", "s", "t", "\n">>,
    <<"h", "i", "\n", "t", "e", "s", "t", "\n">>,
    <<"t", "e", "s">>,
    <<"t", "s", "e", "t", "\n">> }

\* ------------------------------------------------------------------ helpers
\* Python's `needle in haystack` on strings.
Contains(haystack, needle) ==
  \E k \in 0..(Len(haystack) - Len(needle)) :
     \A j \in 1..Len(needle) : haystack[k + j] = needle[j]

\* shlex.quote over the model's paths: a string made only of safe characters
\* is returned unchanged, any other is wrapped in single quotes.
ShlexQuote(s) ==
  IF s = SpacedPath THEN "'/srv/kernel bisect/lib'" ELSE s

\* A remote or local file path is the pair <<directory, "/name">>;
\* os.path.dirname drops the last component.
Dirname(path) == path[1]

LibraryName == "/bisect-functions.sh"

VARIABLES
  pc,                      \* label of the next statement to run
  stack,                   \* return labels of the active calls, innermost first
  arg,                     \* (command, timeout) of the _ssh_command call
  copy_arg,                \* (local_path, remote_path) of _copy_to_slave
  exc,                     \* exception in flight ("none" when there is none)
  rv,                      \* value returned by the last boolean function
  res,                     \* (ret, stdout) returned by the last _ssh_command
  stdout,                  \* check_connectivity's local `stdout`
  iter,                    \* remaining items of the running for loop
  checks,                  \* verify_deployment's local `checks`
  all_passed,              \* verify_deployment's local `all_passed`
  report,                  \* the tuple verify_deployment returned
  exit_code,               \* value returned by main (-1 before it returns)
  cli,                     \* argparse result: check_only, update_only
  deploy_path,             \* self.deploy_path
  local_lib_path_exists,   \* self.local_lib_path.exists()
  library_file_exists,     \* (self.local_lib_path / LibraryName).exists()
  host,                    \* what the remote host answers to each probe while
                           \* its state is held fixed (<<>>: not held fixed)
  hist                     \* history of the current top-level invocation

vars ==
  <<pc, stack, arg, copy_arg, exc, rv, res, stdout, iter, checks, all_passed, report,
    exit_code, cli, deploy_path, local_lib_path_exists, library_file_exists,
    host, hist>>

\* What no step of an invocation changes: the deployer's attributes, the local
\* files and the command line.
fixed ==
  <<cli, deploy_path, local_lib_path_exists, library_file_exists, host>>

\* The registers and locals other than the control state.
data ==
  <<copy_arg, res, stdout, iter, checks, all_passed, report, exit_code>>

\* ------------------------------------------------------------ history events
CallEv(fn) == [ev |-> "call", fn |-> fn]

RetEv(fn, val) == [ev |-> "ret", fn |-> fn, val |-> val]

RaiseEv(fn, e) == [ev |-> "raise", fn |-> fn, exc |-> e]

IssueEv(kind, cmd, timeout) ==
  [ev |-> "issue", kind |-> kind, cmd |-> cmd, timeout |-> timeout]

\* raised is "none" when the tool returned; code is its exit code (-1 when it
\* raised instead of returning).
CompleteEv(kind, raised, code) ==
  [ev |-> "complete", kind |-> kind, raised |-> raised, code |-> code]

ErrorEv(fn, msg) == [ev |-> "error", fn |-> fn, msg |-> msg]

ExitEv(code) == [ev |-> "exit", fn |-> "main", code |-> code]

\* ------------------------------------------------------ control-flow helpers
\* Enter function fn at its first label; it will return to retLabel.
Call(fn, retLabel, a) ==
  /\ pc' = fn
  /\ stack' = <<retLabel>> \o stack
  /\ arg' = a
  /\ exc' = "none"
  /\ hist' = Append(hist, CallEv(fn))
  /\ UNCHANGED rv

\* Return the boolean val from fn, after logging the events in log.
Return(fn, val, log) ==
  /\ pc' = Head(stack)
  /\ stack' = Tail(stack)
  /\ rv' = val
  /\ exc' = "none"
  /\ hist' = hist \o log \o <<RetEv(fn, val)>>
  /\ UNCHANGED arg

\* Leave fn with exception e in flight.
Raise(fn, e, log) ==
  /\ pc' = Head(stack)
  /\ stack' = Tail(stack)
  /\ exc' = e
  /\ hist' = hist \o log \o <<RaiseEv(fn, e)>>
  /\ UNCHANGED <<arg, rv>>

\* Continue inside the same function.
Goto(label) ==
  /\ pc' = label
  /\ exc' = "none"
  /\ UNCHANGED <<stack, arg, rv, hist>>

NoArg == [command |-> <<>>, timeout |-> 0]

SshArgs(command, timeout) == [command |-> command, timeout |-> timeout]

NoCopyArg == [local_path |-> <<>>, remote_path |-> <<>>]

CopyArgs(local_path, remote_path) ==
  [local_path |-> local_path, remote_path |-> remote_path]

NoResult == [ret |-> -1, stdout |-> <<>>]

NoReport == [all_passed |-> FALSE, checks |-> <<>>]

NoCli == [check_only |-> FALSE, update_only |-> FALSE]

\* -------------------------------------------------------------------- Init
Init ==
  /\ pc = "idle"
  /\ stack = <<>>
  /\ arg = NoArg
  /\ copy_arg = NoCopyArg
  /\ exc = "none"
  /\ rv = FALSE
  /\ res = NoResult
  /\ stdout = <<>>
  /\ iter = <<>>
  /\ checks = <<>>
  /\ all_passed = FALSE
  /\ report = NoReport
  /\ exit_code = -1
  /\ cli = NoCli
  /\ deploy_path \in DeployPaths
  /\ local_lib_path_exists \in BOOLEAN
  /\ library_file_exists \in BOOLEAN
  /\ library_file_exists => local_lib_path_exists
  /\ host = <<>>
  /\ hist = <<>>

\* ----------------------------------------------------------------- caller
\* The public surface: the methods of SlaveDeployer and main.
Operations ==
  { "check_connectivity", "create_directories", "deploy_library",
    "initialize_protection", "verify_deployment", "is_deployed",
    "update_library", "deploy_full", "main" }

\* The caller invokes one operation on a deployer; a finished invocation may
\* be followed by another one.  Registers and locals start afresh.
Invoke(op, flags) ==
  /\ pc \in {"idle", "done"}
  /\ pc' = op
  /\ stack' = <<"done">>
  /\ arg' = NoArg
  /\ copy_arg' = NoCopyArg
  /\ exc' = "none"
  /\ rv' = FALSE
  /\ res' = NoResult
  /\ stdout' = <<>>
  /\ iter' = <<>>
  /\ checks' = <<>>
  /\ all_passed' = FALSE
  /\ report' = NoReport
  /\ exit_code' = -1
  /\ cli' = IF op = "main" THEN flags ELSE NoCli
  /\ hist' = <<CallEv(op)>>
  /\ UNCHANGED <<deploy_path, local_lib_path_exists, library_file_exists,
                 host>>

Caller ==
  \E op \in Operations :
    \E flags \in [check_only : BOOLEAN, update_only : BOOLEAN] :
      Invoke(op, flags)

\* ------------------------------------------------------------ _ssh_command
\* Line 95: hand the command to ssh_client.run_command.
SshCommandCall ==
  /\ pc = "_ssh_command"
  /\ pc' = "run_command"
  /\ hist' = Append(hist, IssueEv("ssh", arg.command, arg.timeout))
  /\ UNCHANGED <<stack, arg, exc, rv, data, fixed>>

\* What run_command can do: return (code, out, err) or raise.
SshOutcomes ==
  [raised : {"none"}, code : ExitCodes, stdout : Stdouts]
    \cup [raised : {"Exception"}, code : {-1}, stdout : {<<>>}]

\* Lines 95-99: run_command returns its tuple, or any exception it raises is
\* wrapped into SSHError.
SshCommandReturn ==
  /\ pc = "run_command"
  /\ \E out \in SshOutcomes :
       IF out.raised = "none"
       THEN /\ pc' = Head(stack)
            /\ stack' = Tail(stack)
            /\ exc' = "none"
            /\ res' = [ret |-> out.code, stdout |-> out.stdout]
            /\ hist' = Append(hist, CompleteEv("ssh", "none", out.code))
            /\ UNCHANGED <<arg, rv>>
       ELSE /\ Raise("_ssh_command", "SSHError",
                     <<CompleteEv("ssh", out.raised, out.code)>>)
            /\ UNCHANGED res
  /\ UNCHANGED <<copy_arg, stdout, iter, checks, all_passed, report,
                 exit_code, fixed>>

\* ------------------------------------------------------ check_connectivity
\* Lines 154-157: the echo probe.
CheckConnectivityProbe ==
  /\ pc = "check_connectivity"
  /\ Call("_ssh_command", "check_connectivity_ret",
          SshArgs(<<"echo", "test">>, CONNECTIVITY_TIMEOUT))
  /\ UNCHANGED <<data, fixed>>

\* Variant of CheckConnectivityResult that trusts the exit code alone.
CheckConnectivityResult_ExitCodeOnly ==
  /\ pc = "check_connectivity_ret"
  /\ IF exc = "SSHError"
     THEN /\ Return("check_connectivity", FALSE, <<>>)
          /\ UNCHANGED stdout
     ELSE IF exc # "none"
     THEN /\ Raise("check_connectivity", exc, <<>>)
          /\ UNCHANGED stdout
     ELSE /\ stdout' = res.stdout
          /\ Return("check_connectivity", res.ret = 0, <<>>)
  /\ UNCHANGED <<copy_arg, res, iter, checks, all_passed, report, exit_code,
                 fixed>>

\* Lines 158-167.
CheckConnectivityResult ==
  /\ pc = "check_connectivity_ret"
  /\ IF exc = "SSHError"
     THEN /\ Return("check_connectivity", FALSE, <<>>)
          /\ UNCHANGED stdout
     ELSE IF exc # "none"
     THEN /\ Raise("check_connectivity", exc, <<>>)
          /\ UNCHANGED stdout
     ELSE /\ stdout' = res.stdout
          /\ Return("check_connectivity",
                    res.ret = 0 /\ Contains(res.stdout, ExpectedToken), <<>>)
  /\ UNCHANGED <<copy_arg, res, iter, checks, all_passed, report, exit_code,
                 fixed>>

\* ------------------------------------------------------ create_directories
\* Lines 177-181.
Directories(path) == <<path, DEFAULT_STATE_DIR, "/var/log">>

\* Lines 175-181: build the list the loop walks.
CreateDirectoriesStart ==
  /\ pc = "create_directories"
  /\ iter' = Directories(deploy_path)
  /\ Goto("create_directories_loop")
  /\ UNCHANGED <<copy_arg, res, stdout, checks, all_passed, report,
                 exit_code, fixed>>

\* Lines 183-185 and 194-195: mkdir the next directory, or finish the loop.
CreateDirectoriesNext ==
  /\ pc = "create_directories_loop"
  /\ IF iter = <<>>
     THEN /\ Return("create_directories", TRUE, <<>>)
          /\ UNCHANGED iter
     ELSE /\ Call("_ssh_command", "create_directories_ret",
                  SshArgs(<<"mkdir", "-p", Head(iter)>>, DEFAULT_SSH_TIMEOUT))
          /\ iter' = Tail(iter)
  /\ UNCHANGED <<copy_arg, res, stdout, checks, all_passed, report,
                 exit_code, fixed>>

\* Variant of CreateDirectoriesResult that goes on after a non-zero exit.
CreateDirectoriesResult_IgnoresExit ==
  /\ pc = "create_directories_ret"
  /\ IF exc = "SSHError"
     THEN Return("create_directories", FALSE, <<>>)
     ELSE IF exc # "none"
     THEN Raise("create_directories", exc, <<>>)
     ELSE Goto("create_directories_loop")
  /\ UNCHANGED <<data, fixed>>

\* Lines 186-192.
CreateDirectoriesResult ==
  /\ pc = "create_directories_ret"
  /\ IF exc = "SSHError"
     THEN Return("create_directories", FALSE, <<>>)
     ELSE IF exc # "none"
     THEN Raise("create_directories", exc, <<>>)
     ELSE IF res.ret # 0
     THEN Return("create_directories", FALSE, <<>>)
     ELSE Goto("create_directories_loop")
  /\ UNCHANGED <<data, fixed>>

\* ----------------------------------------------------------- _copy_to_slave
\* Lines 123-130.
RsyncCmd(local_path, remote_path) ==
  <<"rsync", "-az", "-e",
    "ssh -o StrictHostKeyChecking=no -o ConnectTimeout=10",
    local_path[1], local_path[2], "user@host:", remote_path[1],
    remote_path[2]>>

\* What subprocess.run can do: return a completed process, time out, or fail
\* to start the tool.
RsyncOutcomes ==
  [raised : {"none"}, code : ExitCodes]
    \cup [raised : {"TimeoutExpired", "OSError"}, code : {-1}]

\* Lines 114-117: create the remote parent directory.
CopyToSlaveMkdir ==
  /\ pc = "_copy_to_slave"
  /\ Call("_ssh_command", "_copy_to_slave_mkdir_ret",
          SshArgs(<<"mkdir", "-p",
                    ShlexQuote(Dirname(copy_arg.remote_path))>>,
                  DEFAULT_SSH_TIMEOUT))
  /\ UNCHANGED <<data, fixed>>

\* Variant of CopyToSlaveAfterMkdir that does not test the exit code of the
\* mkdir before it starts rsync.
CopyToSlaveAfterMkdir_IgnoresExit ==
  /\ pc = "_copy_to_slave_mkdir_ret"
  /\ IF exc # "none"
     THEN Raise("_copy_to_slave", "TransferError", <<>>)
     ELSE /\ pc' = "subprocess_run"
          /\ exc' = "none"
          /\ hist' = Append(hist,
                 IssueEv("rsync",
                         RsyncCmd(copy_arg.local_path, copy_arg.remote_path),
                         RSYNC_TIMEOUT))
          /\ UNCHANGED <<stack, arg, rv>>
  /\ UNCHANGED <<data, fixed>>

\* Variant of CopyToSlaveAfterMkdir without the `except Exception` clause:
\* the SSHError of the mkdir leaves _copy_to_slave as it is.
CopyToSlaveAfterMkdir_Reraises ==
  /\ pc = "_copy_to_slave_mkdir_ret"
  /\ IF exc # "none"
     THEN Raise("_copy_to_slave", exc, <<>>)
     ELSE IF res.ret # 0
     THEN Return("_copy_to_slave", FALSE, <<>>)
     ELSE /\ pc' = "subprocess_run"
          /\ exc' = "none"
          /\ hist' = Append(hist,
                 IssueEv("rsync",
                         RsyncCmd(copy_arg.local_path, copy_arg.remote_path),
                         RSYNC_TIMEOUT))
          /\ UNCHANGED <<stack, arg, rv>>
  /\ UNCHANGED <<data, fixed>>

\* Lines 118-132 and 143-146: an SSHError of the mkdir is caught by
\* `except Exception` and becomes a TransferError; a non-zero mkdir returns
\* False; otherwise rsync is started.
CopyToSlaveAfterMkdir ==
  /\ pc = "_copy_to_slave_mkdir_ret"
  /\ IF exc # "none"
     THEN Raise("_copy_to_slave", "TransferError", <<>>)
     ELSE IF res.ret # 0
     THEN Return("_copy_to_slave", FALSE, <<>>)
     ELSE /\ pc' = "subprocess_run"
          /\ exc' = "none"
          /\ hist' = Append(hist,
                 IssueEv("rsync",
                         RsyncCmd(copy_arg.local_path, copy_arg.remote_path),
                         RSYNC_TIMEOUT))
          /\ UNCHANGED <<stack, arg, rv>>
  /\ UNCHANGED <<data, fixed>>

\* Variant of CopyToSlaveAfterRsync that runs rsync with check=True: a
\* non-zero exit raises and becomes a TransferError.
CopyToSlaveAfterRsync_CheckTrue ==
  /\ pc = "subprocess_run"
  /\ \E out \in RsyncOutcomes :
       IF out.raised = "none" /\ out.code = 0
       THEN Return("_copy_to_slave", TRUE,
                   <<CompleteEv("rsync", "none", out.code)>>)
       ELSE Raise("_copy_to_slave", "TransferError",
                  <<CompleteEv("rsync", out.raised, out.code)>>)
  /\ UNCHANGED <<data, fixed>>

\* Lines 132-146: rsync's exit code decides the boolean; a timeout or any
\* other exception becomes a TransferError.
CopyToSlaveAfterRsync ==
  /\ pc = "subprocess_run"
  /\ \E out \in RsyncOutcomes :
       IF out.raised = "none"
       THEN Return("_copy_to_slave", out.code = 0,
                   <<CompleteEv("rsync", "none", out.code)>>)
       ELSE Raise("_copy_to_slave", "TransferError",
                  <<CompleteEv("rsync", out.raised, out.code)>>)
  /\ UNCHANGED <<data, fixed>>

\* ----------------------------------------------------------- deploy_library
\* str(library_file) and the remote path of the library.
LocalLibraryFile == <<"local_lib_path", LibraryName>>

RemoteLibraryFile(path) == <<path, LibraryName>>

\* Variant of DeployLibraryStart that checks the artifact root only.
DeployLibraryStart_ChecksRootOnly ==
  /\ pc = "deploy_library"
  /\ IF ~local_lib_path_exists
     THEN Return("deploy_library", FALSE, <<>>)
     ELSE Call("_ssh_command", "deploy_library_mkdir_ret",
               SshArgs(<<"mkdir", "-p", deploy_path>>, DEFAULT_SSH_TIMEOUT))
  /\ UNCHANGED <<data, fixed>>

\* Lines 203-216: both local existence checks, then the remote mkdir.
DeployLibraryStart ==
  /\ pc = "deploy_library"
  /\ IF ~local_lib_path_exists
     THEN Return("deploy_library", FALSE, <<>>)
     ELSE IF ~library_file_exists
     THEN Return("deploy_library", FALSE, <<>>)
     ELSE Call("_ssh_command", "deploy_library_mkdir_ret",
               SshArgs(<<"mkdir", "-p", deploy_path>>, DEFAULT_SSH_TIMEOUT))
  /\ UNCHANGED <<data, fixed>>

\* Lines 217-229.
DeployLibraryAfterMkdir ==
  /\ pc = "deploy_library_mkdir_ret"
  /\ IF exc = "SSHError"
     THEN /\ Return("deploy_library", FALSE, <<>>)
          /\ UNCHANGED copy_arg
     ELSE IF exc # "none"
     THEN /\ Raise("deploy_library", exc, <<>>)
          /\ UNCHANGED copy_arg
     ELSE IF res.ret # 0
     THEN /\ Return("deploy_library", FALSE, <<>>)
          /\ UNCHANGED copy_arg
     ELSE /\ Call("_copy_to_slave", "deploy_library_copy_ret", arg)
          /\ copy_arg' = CopyArgs(LocalLibraryFile,
                                  RemoteLibraryFile(deploy_path))
  /\ UNCHANGED <<res, stdout, iter, checks, all_passed, report, exit_code,
                 fixed>>

\* Lines 226-237.
DeployLibraryAfterCopy ==
  /\ pc = "deploy_library_copy_ret"
  /\ IF exc = "TransferError"
     THEN Return("deploy_library", FALSE, <<>>)
     ELSE IF exc # "none"
     THEN Raise("deploy_library", exc, <<>>)
     ELSE IF ~rv
     THEN Return("deploy_library", FALSE, <<>>)
     ELSE Call("_ssh_command", "deploy_library_chmod_ret",
               SshArgs(<<"chmod", "+x", deploy_path, LibraryName>>,
                       DEFAULT_SSH_TIMEOUT))
  /\ UNCHANGED <<data, fixed>>

\* Variant of DeployLibraryAfterChmod in which a channel error of the chmod
\* fails the step, as in the other steps.
DeployLibraryAfterChmod_Fatal ==
  /\ pc = "deploy_library_chmod_ret"
  /\ IF exc = "SSHError"
     THEN Return("deploy_library", FALSE, <<>>)
     ELSE IF exc # "none"
     THEN Raise("deploy_library", exc, <<>>)
     ELSE Return("deploy_library", TRUE, <<>>)
  /\ UNCHANGED <<data, fixed>>

\* Lines 238-246: a failed chmod is only a warning.
DeployLibraryAfterChmod ==
  /\ pc = "deploy_library_chmod_ret"
  /\ IF exc = "SSHError"
     THEN Return("deploy_library", TRUE, <<>>)
     ELSE IF exc # "none"
     THEN Raise("deploy_library", exc, <<>>)
     ELSE Return("deploy_library", TRUE, <<>>)
  /\ UNCHANGED <<data, fixed>>

\* ---------------------------------------------------- initialize_protection
\* Lines 257-259.
InitCommand(path) ==
  <<"source", path, LibraryName, "&&", "init_protection">>

\* Variant of InitializeProtectionStart that leaves the timeout at its
\* default.
InitializeProtectionStart_DefaultTimeout ==
  /\ pc = "initialize_protection"
  /\ Call("_ssh_command", "initialize_protection_ret",
          SshArgs(InitCommand(deploy_path), DEFAULT_SSH_TIMEOUT))
  /\ UNCHANGED <<data, fixed>>

\* Lines 254-262.
InitializeProtectionStart ==
  /\ pc = "initialize_protection"
  /\ Call("_ssh_command", "initialize_protection_ret",
          SshArgs(InitCommand(deploy_path), INIT_TIMEOUT))
  /\ UNCHANGED <<data, fixed>>

\* Lines 263-273.
InitializeProtectionResult ==
  /\ pc = "initialize_protection_ret"
  /\ IF exc = "SSHError"
     THEN Return("initialize_protection", FALSE, <<>>)
     ELSE IF exc # "none"
     THEN Raise("initialize_protection", exc, <<>>)
     ELSE Return("initialize_protection", res.ret = 0, <<>>)
  /\ UNCHANGED <<data, fixed>>

\* -------------------------------------------------------- verify_deployment
\* A check line is <<mark, text>>: mark "ok" is the check mark the code puts
\* in front of a passed check, "fail" the cross.
TestDeployDir(path) == <<"test", "-d", path>>

TestLibrary(path) == <<"test", "-x", path, LibraryName>>

TestMarker == <<"test", "-f", DEFAULT_STATE_DIR, "/protected-kernels.list">>

TestStateDir == <<"test", "-d", DEFAULT_STATE_DIR>>

\* Variant of RecordCheck whose except branch forgets to clear all_passed.
RecordCheck_KeepsFlagOnError(okText, failText, errText) ==
  IF exc = "SSHError"
  THEN /\ checks' = Append(checks, <<"fail", errText>>)
       /\ UNCHANGED all_passed
  ELSE IF res.ret = 0
  THEN /\ checks' = Append(checks, <<"ok", okText>>)
       /\ UNCHANGED all_passed
  ELSE /\ checks' = Append(checks, <<"fail", failText>>)
       /\ all_passed' = FALSE

\* One try/except block of verify_deployment: append the line of the probe
\* that just returned and clear all_passed when it did not exit 0.
RecordCheck(okText, failText, errText) ==
  IF exc = "SSHError"
  THEN /\ checks' = Append(checks, <<"fail", errText>>)
       /\ all_passed' = FALSE
  ELSE IF res.ret = 0
  THEN /\ checks' = Append(checks, <<"ok", okText>>)
       /\ UNCHANGED all_passed
  ELSE /\ checks' = Append(checks, <<"fail", failText>>)
       /\ all_passed' = FALSE

\* Lines 281-288.
VerifyDeploymentStart ==
  /\ pc = "verify_deployment"
  /\ checks' = <<>>
  /\ all_passed' = TRUE
  /\ Call("_ssh_command", "verify_deployment_ret1",
          SshArgs(TestDeployDir(deploy_path), DEFAULT_SSH_TIMEOUT))
  /\ UNCHANGED <<copy_arg, res, stdout, iter, report, exit_code, fixed>>

\* Lines 289-300.
VerifyDeploymentCheck1 ==
  /\ pc = "verify_deployment_ret1"
  /\ IF exc \notin {"none", "SSHError"}
     THEN /\ Raise("verify_deployment", exc, <<>>)
          /\ UNCHANGED <<checks, all_passed>>
     ELSE /\ RecordCheck("Library directory exists",
                         "Library directory missing",
                         "Library directory check failed")
          /\ Call("_ssh_command", "verify_deployment_ret2",
                  SshArgs(TestLibrary(deploy_path), DEFAULT_SSH_TIMEOUT))
  /\ UNCHANGED <<copy_arg, res, stdout, iter, report, exit_code, fixed>>

\* Lines 301-314.
VerifyDeploymentCheck2 ==
  /\ pc = "verify_deployment_ret2"
  /\ IF exc \notin {"none", "SSHError"}
     THEN /\ Raise("verify_deployment", exc, <<>>)
          /\ UNCHANGED <<checks, all_passed>>
     ELSE /\ RecordCheck("bisect-functions.sh executable",
                         "bisect-functions.sh not found",
                         "bisect-functions.sh check failed")
          /\ Call("_ssh_command", "verify_deployment_ret3",
                  SshArgs(TestMarker, DEFAULT_SSH_TIMEOUT))
  /\ UNCHANGED <<copy_arg, res, stdout, iter, report, exit_code, fixed>>

\* Lines 315-326.
VerifyDeploymentCheck3 ==
  /\ pc = "verify_deployment_ret3"
  /\ IF exc \notin {"none", "SSHError"}
     THEN /\ Raise("verify_deployment", exc, <<>>)
          /\ UNCHANGED <<checks, all_passed>>
     ELSE /\ RecordCheck("Kernel protection initialized",
                         "Kernel protection not initialized",
                         "Kernel protection check failed")
          /\ Call("_ssh_command", "verify_deployment_ret4",
                  SshArgs(TestStateDir, DEFAULT_SSH_TIMEOUT))
  /\ UNCHANGED <<copy_arg, res, stdout, iter, report, exit_code, fixed>>

\* Lines 327-339: the last check, then return (all_passed, checks).
VerifyDeploymentCheck4 ==
  /\ pc = "verify_deployment_ret4"
  /\ IF exc \notin {"none", "SSHError"}
     THEN /\ Raise("verify_deployment", exc, <<>>)
          /\ UNCHANGED <<checks, all_passed, report>>
     ELSE /\ RecordCheck("State directory exists",
                         "State directory missing",
                         "State directory check failed")
          /\ report' = [all_passed |-> all_passed', checks |-> checks']
          /\ Return("verify_deployment", all_passed', <<>>)
  /\ UNCHANGED <<copy_arg, res, stdout, iter, exit_code, fixed>>

\* -------------------------------------------------------------- deploy_full
\* Lines 349-354.
DeployFullStart ==
  /\ pc = "deploy_full"
  /\ Call("check_connectivity", "deploy_full_ret1", arg)
  /\ UNCHANGED <<data, fixed>>

\* Variant of DeployFullAfterConnectivity that goes straight to
\* deploy_library.
DeployFullAfterConnectivity_SkipsDirectories ==
  /\ pc = "deploy_full_ret1"
  /\ IF exc # "none"
     THEN Raise("deploy_full", exc, <<>>)
     ELSE IF ~rv
     THEN Return("deploy_full", FALSE,
                 <<ErrorEv("deploy_full",
                           "Deployment failed: No SSH connectivity")>>)
     ELSE Call("deploy_library", "deploy_full_ret3", arg)
  /\ UNCHANGED <<data, fixed>>

\* Lines 354-359.
DeployFullAfterConnectivity ==
  /\ pc = "deploy_full_ret1"
  /\ IF exc # "none"
     THEN Raise("deploy_full", exc, <<>>)
     ELSE IF ~rv
     THEN Return("deploy_full", FALSE,
                 <<ErrorEv("deploy_full",
                           "Deployment failed: No SSH connectivity")>>)
     ELSE Call("create_directories", "deploy_full_ret2", arg)
  /\ UNCHANGED <<data, fixed>>

\* Variant of DeployFullAfterDirectories that does not test the result of
\* create_directories.
DeployFullAfterDirectories_IgnoresFailure ==
  /\ pc = "deploy_full_ret2"
  /\ IF exc # "none"
     THEN Raise("deploy_full", exc, <<>>)
     ELSE Call("deploy_library", "deploy_full_ret3", arg)
  /\ UNCHANGED <<data, fixed>>

\* Lines 359-364.
DeployFullAfterDirectories ==
  /\ pc = "deploy_full_ret2"
  /\ IF exc # "none"
     THEN Raise("deploy_full", exc, <<>>)
     ELSE IF ~rv
     THEN Return("deploy_full", FALSE,
                 <<ErrorEv("deploy_full",
                           "Deployment failed: Could not create directories")>>)
     ELSE Call("deploy_library", "deploy_full_ret3", arg)
  /\ UNCHANGED <<data, fixed>>

\* Lines 364-369.
DeployFullAfterLibrary ==
  /\ pc = "deploy_full_ret3"
  /\ IF exc # "none"
     THEN Raise("deploy_full", exc, <<>>)
     ELSE IF ~rv
     THEN Return("deploy_full", FALSE,
                 <<ErrorEv("deploy_full",
                           "Deployment failed: Could not deploy library")>>)
     ELSE Call("initialize_protection", "deploy_full_ret4", arg)
  /\ UNCHANGED <<data, fixed>>

\* Variant of DeployFullAfterProtection that returns success without running
\* the verification.
DeployFullAfterProtection_SkipsVerify ==
  /\ pc = "deploy_full_ret4"
  /\ IF exc # "none"
     THEN Raise("deploy_full", exc, <<>>)
     ELSE IF ~rv
     THEN Return("deploy_full", FALSE,
                 <<ErrorEv("deploy_full",
                           "Deployment failed: Could not initialize protection")>>)
     ELSE Return("deploy_full", TRUE, <<>>)
  /\ UNCHANGED <<data, fixed>>

\* Lines 369-374.
DeployFullAfterProtection ==
  /\ pc = "deploy_full_ret4"
  /\ IF exc # "none"
     THEN Raise("deploy_full", exc, <<>>)
     ELSE IF ~rv
     THEN Return("deploy_full", FALSE,
                 <<ErrorEv("deploy_full",
                           "Deployment failed: Could not initialize protection")>>)
     ELSE Call("verify_deployment", "deploy_full_ret5", arg)
  /\ UNCHANGED <<data, fixed>>

\* Variant of DeployFullAfterVerify that reports success whatever the
\* verification said.
DeployFullAfterVerify_AlwaysTrue ==
  /\ pc = "deploy_full_ret5"
  /\ IF exc # "none"
     THEN Raise("deploy_full", exc, <<>>)
     ELSE Return("deploy_full", TRUE, <<>>)
  /\ UNCHANGED <<data, fixed>>

\* Lines 374-385.
DeployFullAfterVerify ==
  /\ pc = "deploy_full_ret5"
  /\ IF exc # "none"
     THEN Raise("deploy_full", exc, <<>>)
     ELSE IF rv
     THEN Return("deploy_full", TRUE, <<>>)
     ELSE Return("deploy_full", FALSE,
                 <<ErrorEv("deploy_full",
                           "Deployment completed with errors")>>)
  /\ UNCHANGED <<data, fixed>>

\* -------------------------------------------------------------- is_deployed
\* Variant of CriticalChecks whose third check is the state directory.
CriticalChecks_StateDir(path) ==
  <<TestDeployDir(path), TestLibrary(path), TestStateDir>>

\* Lines 394-398.
CriticalChecks(path) == <<TestDeployDir(path), TestLibrary(path), TestMarker>>

\* Lines 393-398.
IsDeployedStart ==
  /\ pc = "is_deployed"
  /\ iter' = CriticalChecks(deploy_path)
  /\ Goto("is_deployed_loop")
  /\ UNCHANGED <<copy_arg, res, stdout, checks, all_passed, report,
                 exit_code, fixed>>

\* Lines 400-402 and 409.
IsDeployedNext ==
  /\ pc = "is_deployed_loop"
  /\ IF iter = <<>>
     THEN /\ Return("is_deployed", TRUE, <<>>)
          /\ UNCHANGED iter
     ELSE /\ Call("_ssh_command", "is_deployed_ret",
                  SshArgs(Head(iter), DEFAULT_SSH_TIMEOUT))
          /\ iter' = Tail(iter)
  /\ UNCHANGED <<copy_arg, res, stdout, checks, all_passed, report,
                 exit_code, fixed>>

\* Variant of IsDeployedResult that goes on with the next probe after a
\* channel error.
IsDeployedResult_ContinuesOnError ==
  /\ pc = "is_deployed_ret"
  /\ IF exc = "SSHError"
     THEN Goto("is_deployed_loop")
     ELSE IF exc # "none"
     THEN Raise("is_deployed", exc, <<>>)
     ELSE IF res.ret # 0
     THEN Return("is_deployed", FALSE, <<>>)
     ELSE Goto("is_deployed_loop")
  /\ UNCHANGED <<data, fixed>>

\* Lines 403-407.
IsDeployedResult ==
  /\ pc = "is_deployed_ret"
  /\ IF exc = "SSHError"
     THEN Return("is_deployed", FALSE, <<>>)
     ELSE IF exc # "none"
     THEN Raise("is_deployed", exc, <<>>)
     ELSE IF res.ret # 0
     THEN Return("is_deployed", FALSE, <<>>)
     ELSE Goto("is_deployed_loop")
  /\ UNCHANGED <<data, fixed>>

\* ----------------------------------------------------------- update_library
\* Variant of UpdateLibraryStart that runs the whole deployment.
UpdateLibraryStart_RunsFull ==
  /\ pc = "update_library"
  /\ Call("deploy_full", "update_library_ret", arg)
  /\ UNCHANGED <<data, fixed>>

\* Lines 417-419.
UpdateLibraryStart ==
  /\ pc = "update_library"
  /\ Call("deploy_library", "update_library_ret", arg)
  /\ UNCHANGED <<data, fixed>>

\* Lines 419-424.
UpdateLibraryResult ==
  /\ pc = "update_library_ret"
  /\ IF exc # "none"
     THEN Raise("update_library", exc, <<>>)
     ELSE IF ~rv
     THEN Return("update_library", FALSE, <<>>)
     ELSE Return("update_library", TRUE, <<>>)
  /\ UNCHANGED <<data, fixed>>

\* --------------------------------------------------------------------- main
\* main returns the process exit code.
Exit(code) ==
  /\ pc' = Head(stack)
  /\ stack' = Tail(stack)
  /\ exc' = "none"
  /\ exit_code' = code
  /\ hist' = Append(hist, ExitEv(code))
  /\ UNCHANGED <<arg, rv>>

\* An exception leaves main.
MainRaise ==
  /\ Raise("main", exc, <<>>)
  /\ UNCHANGED exit_code

\* Lines 444-459: pick the mode.
MainStart ==
  /\ pc = "main"
  /\ IF cli.check_only
     THEN Call("is_deployed", "main_ret_is_deployed", arg)
     ELSE IF cli.update_only
     THEN Call("update_library", "main_ret_update", arg)
     ELSE Call("deploy_full", "main_ret_full", arg)
  /\ UNCHANGED <<data, fixed>>

\* Variant of MainAfterIsDeployed that deploys when the slave is not deployed.
MainAfterIsDeployed_DeploysWhenMissing ==
  /\ pc = "main_ret_is_deployed"
  /\ IF exc # "none"
     THEN MainRaise
     ELSE IF rv
     THEN /\ Call("verify_deployment", "main_ret_verify", arg)
          /\ UNCHANGED exit_code
     ELSE /\ Call("deploy_full", "main_ret_full", arg)
          /\ UNCHANGED exit_code
  /\ UNCHANGED <<copy_arg, res, stdout, iter, checks, all_passed, report,
                 fixed>>

\* Lines 447-453.
MainAfterIsDeployed ==
  /\ pc = "main_ret_is_deployed"
  /\ IF exc # "none"
     THEN MainRaise
     ELSE IF rv
     THEN /\ Call("verify_deployment", "main_ret_verify", arg)
          /\ UNCHANGED exit_code
     ELSE Exit(1)
  /\ UNCHANGED <<copy_arg, res, stdout, iter, checks, all_passed, report,
                 fixed>>

\* Variant of MainAfterVerify that drops the result of verify_deployment.
MainAfterVerify_IgnoresReport ==
  /\ pc = "main_ret_verify"
  /\ IF exc # "none"
     THEN MainRaise
     ELSE Exit(0)
  /\ UNCHANGED <<copy_arg, res, stdout, iter, checks, all_passed, report,
                 fixed>>

\* Lines 449-450.
MainAfterVerify ==
  /\ pc = "main_ret_verify"
  /\ IF exc # "none"
     THEN MainRaise
     ELSE Exit(IF rv THEN 0 ELSE 1)
  /\ UNCHANGED <<copy_arg, res, stdout, iter, checks, all_passed, report,
                 fixed>>

\* Line 456.
MainAfterUpdate ==
  /\ pc = "main_ret_update"
  /\ IF exc # "none"
     THEN MainRaise
     ELSE Exit(IF rv THEN 0 ELSE 1)
  /\ UNCHANGED <<copy_arg, res, stdout, iter, checks, all_passed, report,
                 fixed>>

\* Line 459.
MainAfterDeployFull ==
  /\ pc = "main_ret_full"
  /\ IF exc # "none"
     THEN MainRaise
     ELSE Exit(IF rv THEN 0 ELSE 1)
  /\ UNCHANGED <<copy_arg, res, stdout, iter, checks, all_passed, report,
                 fixed>>

\* --------------------------------------------------------------------- Next
Next ==
  \/ Caller
  \/ SshCommandCall
  \/ SshCommandReturn
  \/ CheckConnectivityProbe
  \/ CheckConnectivityResult
  \/ CreateDirectoriesStart
  \/ CreateDirectoriesNext
  \/ CreateDirectoriesResult
  \/ CopyToSlaveMkdir
  \/ CopyToSlaveAfterMkdir
  \/ CopyToSlaveAfterRsync
  \/ DeployLibraryStart
  \/ DeployLibraryAfterMkdir
  \/ DeployLibraryAfterCopy
  \/ DeployLibraryAfterChmod
  \/ InitializeProtectionStart
  \/ InitializeProtectionResult
  \/ VerifyDeploymentStart
  \/ VerifyDeploymentCheck1
  \/ VerifyDeploymentCheck2
  \/ VerifyDeploymentCheck3
  \/ VerifyDeploymentCheck4
  \/ DeployFullStart
  \/ DeployFullAfterConnectivity
  \/ DeployFullAfterDirectories
  \/ DeployFullAfterLibrary
  \/ DeployFullAfterProtection
  \/ DeployFullAfterVerify
  \/ IsDeployedStart
  \/ IsDeployedNext
  \/ IsDeployedResult
  \/ UpdateLibraryStart
  \/ UpdateLibraryResult
  \/ MainStart
  \/ MainAfterIsDeployed
  \/ MainAfterVerify
  \/ MainAfterUpdate
  \/ MainAfterDeployFull

Spec == Init /\ [][Next]_vars

\* The deployer is one sequential process and every remote call is bounded by
\* its timeout: a step that can be taken is taken.
FairSpec == Spec /\ WF_vars(Next)

\* ------------------------------------------------- reading the history
HistIdx == 1..Len(hist)

IsCall(i, fn) == hist[i].ev = "call" /\ hist[i].fn = fn

IsRet(i, fn) == hist[i].ev = "ret" /\ hist[i].fn = fn

IsRetVal(i, fn, val) == IsRet(i, fn) /\ hist[i].val = val

IsRaise(i, fn) == hist[i].ev = "raise" /\ hist[i].fn = fn

IsError(i, msg) == hist[i].ev = "error" /\ hist[i].msg = msg

IsIssue(i) == hist[i].ev = "issue"

IsComplete(i) == hist[i].ev = "complete"

\* A remote operation that did not exit 0: a non-zero exit or an exception.
IsFailure(i) ==
  IsComplete(i) /\ (hist[i].raised # "none" \/ hist[i].code # 0)

IsSuccess(i) ==
  IsComplete(i) /\ hist[i].raised = "none" /\ hist[i].code = 0

\* The completion at i answers the operation issued at i - 1.
CommandOf(i) == hist[i - 1].cmd

Called(fn) == \E i \in HistIdx : IsCall(i, fn)

Returned(fn, val) == \E i \in HistIdx : IsRetVal(i, fn, val)

\* The invocation is over and handed its result back to the caller.
Done == pc = "done"

TopOp == hist[1].fn

Steps ==
  { "check_connectivity", "create_directories", "deploy_library",
    "initialize_protection" }

\* The commands issued from position from + 1 to position to of the history.
IssuedBetween(from, to) ==
  LET IssueOnly(e) == e.ev = "issue"
      cut == SelectSeq(SubSeq(hist, from + 1, to), IssueOnly)
  IN  [k \in 1..Len(cut) |-> cut[k].cmd]

\* The completions from position from + 1 to position to of the history.
CompletedBetween(from, to) ==
  LET CompleteOnly(e) == e.ev = "complete"
  IN  SelectSeq(SubSeq(hist, from + 1, to), CompleteOnly)

\* ------------------------------------------------------------------- C1
\* C1: in a run of deploy_full, after one of the four steps has returned
\* false nothing more is invoked and no remote command or transfer is
\* issued: the only events left are deploy_full's error line and its return
\* (and main's exit).
C1_NoStepAfterFailure ==
  Len(hist) > 0 /\ Called("deploy_full") =>
    \A i \in HistIdx :
      (\E st \in Steps : IsRetVal(i, st, FALSE)) =>
        \A j \in HistIdx :
          j > i => hist[j].ev \notin {"call", "issue", "complete", "raise"}

\* deploy_full is over, create_directories had failed on its second mkdir.
C1_Witness ==
  /\ Done
  /\ Len(hist) > 0
  /\ TopOp = "deploy_full"
  /\ Returned("check_connectivity", TRUE)
  /\ Returned("create_directories", FALSE)
  /\ Len(IssuedBetween(0, Len(hist))) = 3

\* ------------------------------------------------------------------- C2
\* C2: when deploy_full returns true, each of the four steps returned true
\* and none returned false in that run, deploy_full logged no failure, and
\* the report verify_deployment returned in that run has four checks, all
\* passed, and all_passed true; so a failed check makes deploy_full fail.
C2_SuccessMeansAllPassed ==
  \A i \in HistIdx :
    IsRetVal(i, "deploy_full", TRUE) =>
      /\ \A st \in Steps :
           /\ \E j \in 1..i : IsRetVal(j, st, TRUE)
           /\ \A j \in 1..i : ~IsRetVal(j, st, FALSE)
      /\ \A j \in HistIdx : hist[j].ev # "error"
      /\ \E j \in 1..i : IsRetVal(j, "verify_deployment", TRUE)
      /\ \A j \in 1..i : ~IsRetVal(j, "verify_deployment", FALSE)
      /\ report.all_passed
      /\ Len(report.checks) = 4
      /\ \A k \in 1..Len(report.checks) : report.checks[k][1] = "ok"

\* deploy_full returned true.
C2_Witness ==
  /\ Done
  /\ Len(hist) > 0
  /\ TopOp = "deploy_full"
  /\ Returned("deploy_full", TRUE)

\* All four steps succeeded, one verification check failed, and deploy_full
\* returned false.
C2_WitnessFailedCheck ==
  /\ Done
  /\ Len(hist) > 0
  /\ TopOp = "deploy_full"
  /\ \A st \in Steps : Returned(st, TRUE)
  /\ Returned("verify_deployment", FALSE)
  /\ Returned("deploy_full", FALSE)

\* ------------------------------------------------------------------- C3
\* Every remote operation of the run exited 0 and the echo probe printed the
\* token.
AllRemoteSucceeded ==
  /\ \A i \in HistIdx : IsComplete(i) => IsSuccess(i)
  /\ Contains(stdout, ExpectedToken)

\* A finished scenario-A run returned true with a report of four passed checks.
ScenarioAFinished ==
  /\ Done
  /\ Len(hist) > 0
  /\ TopOp = "deploy_full"
  /\ local_lib_path_exists
  /\ library_file_exists
  /\ AllRemoteSucceeded
  => /\ IsRetVal(Len(hist), "deploy_full", TRUE)
     /\ rv
     /\ exc = "none"
     /\ Len(report.checks) = 4
     /\ \A k \in 1..Len(report.checks) : report.checks[k][1] = "ok"
     /\ report.all_passed

\* On the way there no function returned false or raised and deploy_full
\* logged no failure.
ScenarioAUnderWay ==
  /\ Len(hist) > 0
  /\ TopOp = "deploy_full"
  /\ local_lib_path_exists
  /\ library_file_exists
  /\ AllRemoteSucceeded
  => \A i \in HistIdx :
       /\ hist[i].ev \notin {"error", "raise"}
       /\ hist[i].ev = "ret" => hist[i].val

\* C3: a run of deploy_full in which the local artifact exists, every remote
\* command and the transfer exit 0 and the echo probe prints its token never
\* sees a step fail and ends with deploy_full returning true and a report of
\* exactly four checks, all passed; and every run of deploy_full terminates.
C3_ScenarioA ==
  /\ [](ScenarioAFinished /\ ScenarioAUnderWay)
  /\ (pc = "deploy_full") ~> Done

\* Scenario A has run to its end: thirteen remote operations, all exit 0.
C3_Witness ==
  /\ Done
  /\ Len(hist) > 0
  /\ TopOp = "deploy_full"
  /\ library_file_exists
  /\ AllRemoteSucceeded
  /\ Len(CompletedBetween(0, Len(hist))) = 13

\* ------------------------------------------------------------------- C4
VerifyProbes(path) ==
  <<TestDeployDir(path), TestLibrary(path), TestMarker, TestStateDir>>

\* The three lines each check can produce, in the order of the checks.
CheckTexts ==
  << {"Library directory exists", "Library directory missing",
      "Library directory check failed"},
     {"bisect-functions.sh executable", "bisect-functions.sh not found",
      "bisect-functions.sh check failed"},
     {"Kernel protection initialized", "Kernel protection not initialized",
      "Kernel protection check failed"},
     {"State directory exists", "State directory missing",
      "State directory check failed"} >>

VerifyLabels ==
  { "verify_deployment_ret1", "verify_deployment_ret2",
    "verify_deployment_ret3", "verify_deployment_ret4" }

InVerify ==
  \/ pc \in VerifyLabels
  \/ \E k \in 1..Len(stack) : stack[k] \in VerifyLabels

\* C4: verify_deployment never raises and returns only after it has issued
\* its four probes in the fixed order; the report has exactly four checks in
\* that order, check k passed exactly when probe k exited 0 (a non-zero exit
\* and a channel error both give a failed check), and all_passed is the
\* conjunction of the checks' marks, also while the checks are being
\* collected.
C4_VerifyRunsAllProbes ==
  /\ \A i \in HistIdx : ~IsRaise(i, "verify_deployment")
  /\ InVerify => all_passed = (\A k \in 1..Len(checks) : checks[k][1] = "ok")
  /\ \A c \in HistIdx : \A r \in HistIdx :
       IsCall(c, "verify_deployment") /\ r > c /\ IsRet(r, "verify_deployment")
       => LET probes == CompletedBetween(c, r)
          IN  /\ IssuedBetween(c, r) = VerifyProbes(deploy_path)
              /\ Len(probes) = 4
              /\ Len(report.checks) = 4
              /\ \A k \in 1..4 :
                   /\ report.checks[k][2] \in CheckTexts[k]
                   /\ (report.checks[k][1] = "ok")
                        = (probes[k].raised = "none" /\ probes[k].code = 0)
              /\ report.all_passed
                   = (\A k \in 1..4 : report.checks[k][1] = "ok")
              /\ hist[r].val = report.all_passed

\* The first probe exited non-zero, the second raised a channel error, and
\* the last two were still issued and passed.
C4_Witness ==
  /\ Done
  /\ Len(hist) > 0
  /\ TopOp = "verify_deployment"
  /\ Len(report.checks) = 4
  /\ report.checks[1] = <<"fail", "Library directory missing">>
  /\ report.checks[2] = <<"fail", "bisect-functions.sh check failed">>
  /\ report.checks[3][1] = "ok"
  /\ report.checks[4][1] = "ok"
  /\ ~report.all_passed

\* ------------------------------------------------------------------- C5
\* C5: when the local artifact root or the library file in it does not
\* exist, a call of deploy_library is followed at once by its return of
\* false: no remote command, no transfer and no exception ever follows it.
C5_LocalArtifactAbsent ==
  (~local_lib_path_exists \/ ~library_file_exists) =>
    \A i \in HistIdx :
      IsCall(i, "deploy_library") =>
        /\ i < Len(hist) => IsRetVal(i + 1, "deploy_library", FALSE)
        /\ \A j \in HistIdx :
             j > i =>
               hist[j].ev \notin {"call", "issue", "complete", "raise"}

\* The root exists, the library file does not, deploy_library has returned.
C5_Witness ==
  /\ Done
  /\ Len(hist) > 0
  /\ TopOp = "deploy_library"
  /\ local_lib_path_exists
  /\ ~library_file_exists
  /\ Returned("deploy_library", FALSE)

\* ------------------------------------------------------------------- C6
\* The completion at i is a chmod that exited non-zero or raised.
ChmodFailedAt(i) == IsFailure(i) /\ CommandOf(i)[1] = "chmod"

\* C6: after a failed chmod (non-zero exit or channel error) deploy_library
\* does not raise and returns true, and in a run of deploy_full the next
\* thing that happens is the call of initialize_protection.
C6_ChmodNotFatal ==
  \A i \in HistIdx :
    ChmodFailedAt(i) =>
      \A j \in HistIdx :
        j > i /\ (IsRet(j, "deploy_library") \/ IsRaise(j, "deploy_library"))
        => /\ IsRetVal(j, "deploy_library", TRUE)
           /\ Called("deploy_full") /\ j < Len(hist)
                => IsCall(j + 1, "initialize_protection")

\* The chmod raised a channel error, deploy_library returned true and
\* deploy_full went on to initialize_protection.
C6_Witness ==
  /\ Len(hist) > 0
  /\ TopOp = "deploy_full"
  /\ \E i \in HistIdx : ChmodFailedAt(i) /\ hist[i].raised # "none"
  /\ Returned("deploy_library", TRUE)
  /\ Called("initialize_protection")

\* ------------------------------------------------------------------- C7
\* Position of the return of fn after position c, or the end of the history
\* when fn has not returned yet.
EndOf(c, fn) ==
  IF \E r \in c..Len(hist) : IsRet(r, fn)
  THEN CHOOSE r \in c..Len(hist) : IsRet(r, fn)
  ELSE Len(hist)

IsPrefix(s, t) ==
  Len(s) <= Len(t) /\ \A k \in 1..Len(s) : s[k] = t[k]

\* C7: is_deployed never raises; the probes it issues are a prefix of (deploy
\* dir, executable library, protection marker); a probe that exits non-zero
\* or raises is the last one issued; is_deployed returns true exactly when
\* all three probes were issued and each exited 0, and a return of false
\* comes right after a failed probe.
C7_IsDeployedFailFast ==
  /\ \A i \in HistIdx : ~IsRaise(i, "is_deployed")
  /\ \A c \in HistIdx :
       IsCall(c, "is_deployed") =>
         LET r == EndOf(c, "is_deployed")
             cmds == IssuedBetween(c, r)
             probes == CompletedBetween(c, r)
             ok(k) == probes[k].raised = "none" /\ probes[k].code = 0
         IN  /\ IsPrefix(cmds, CriticalChecks(deploy_path))
             /\ \A k \in 1..Len(probes) : ~ok(k) => k = Len(cmds)
             /\ IsRet(r, "is_deployed") =>
                  /\ hist[r].val
                       = (Len(probes) = 3 /\ \A k \in 1..3 : ok(k))
                  /\ ~hist[r].val =>
                       /\ Len(probes) >= 1
                       /\ ~ok(Len(probes))
                       /\ IsComplete(r - 1) \/ IsRaise(r - 1, "_ssh_command")

\* The second probe raised a channel error: is_deployed returned false and
\* the protection marker was never probed.
C7_Witness ==
  /\ Done
  /\ Len(hist) > 0
  /\ TopOp = "is_deployed"
  /\ Returned("is_deployed", FALSE)
  /\ Len(IssuedBetween(0, Len(hist))) = 2
  /\ CompletedBetween(0, Len(hist))[2].raised # "none"

\* ------------------------------------------------------------------- C8
\* The outputs of Stdouts in which the word test occurs.
OutputsWithToken ==
  { <<"t", "e", "s", "t", "\n">>,
    <<"h", "i", "\n", "t", "e", "s", "t", "\n">> }

\* C8: check_connectivity never raises, and right after it returned its
\* value is true exactly when the echo probe came back (no channel error)
\* with exit code 0 and an output that contains the token.
C8_ConnectivityNeedsToken ==
  /\ \A i \in HistIdx : ~IsRaise(i, "check_connectivity")
  /\ LET n == Len(hist)
     IN  n >= 2 /\ IsRet(n, "check_connectivity") =>
           hist[n].val
             = (/\ IsComplete(n - 1)
                /\ hist[n - 1].raised = "none"
                /\ hist[n - 1].code = 0
                /\ res.ret = 0
                /\ res.stdout \in OutputsWithToken)

\* The probe exited 0 without printing the token; the result is false.
C8_Witness ==
  /\ Done
  /\ Len(hist) > 0
  /\ TopOp = "check_connectivity"
  /\ IsSuccess(Len(hist) - 1)
  /\ res.stdout = <<"t", "e", "s">>
  /\ Returned("check_connectivity", FALSE)

\* ------------------------------------------------------------------- C9
\* The result the caller gets is the failure value of the operation: main
\* exits 1, every other operation returns false (verify_deployment: its
\* all_passed is false).
ResultIsFailure ==
  IF TopOp = "main" THEN exit_code = 1 ELSE rv = FALSE

\* C9: exceptions are raised only by the private helpers _ssh_command and
\* _copy_to_slave and never reach the caller of a workflow operation; a
\* finished operation in which a remote operation other than the chmod
\* raised or exited non-zero handed the caller its failure value.
C9_NoExceptionEscapes ==
  /\ \A i \in HistIdx :
       hist[i].ev = "raise" => hist[i].fn \in {"_ssh_command", "_copy_to_slave"}
  /\ Done =>
       /\ exc = "none"
       /\ hist[Len(hist)].ev \in {"ret", "exit"}
       /\ (\E i \in HistIdx : IsFailure(i) /\ CommandOf(i)[1] # "chmod")
            => ResultIsFailure

\* The mkdir inside _copy_to_slave raised a channel error, which became a
\* TransferError, and deploy_full returned false.
C9_Witness ==
  /\ Done
  /\ Len(hist) > 0
  /\ TopOp = "deploy_full"
  /\ \E i \in HistIdx :
       /\ i > 1
       /\ IsRaise(i, "_copy_to_slave")
       /\ IsRaise(i - 1, "_ssh_command")
  /\ Returned("deploy_full", FALSE)

\* ------------------------------------------------------------------ C10
\* The completion at i is rsync returning a non-zero exit code.
RsyncExitedNonZero(i) ==
  /\ IsComplete(i)
  /\ hist[i].kind = "rsync"
  /\ hist[i].raised = "none"
  /\ hist[i].code # 0

\* C10: when rsync exits non-zero, _copy_to_slave returns false (it does not
\* raise), deploy_library returns false next, nothing is issued any more (no
\* chmod), and deploy_full logs the library failure and returns false;
\* _copy_to_slave raises TransferError only right after rsync timed out or
\* could not be run, or after the channel failed on its mkdir.
C10_RsyncExitIsLogicalFailure ==
  /\ \A i \in HistIdx :
       RsyncExitedNonZero(i) =>
         /\ i + 1 <= Len(hist) => IsRetVal(i + 1, "_copy_to_slave", FALSE)
         /\ i + 2 <= Len(hist) => IsRetVal(i + 2, "deploy_library", FALSE)
         /\ \A j \in HistIdx :
              j > i => hist[j].ev \notin {"call", "issue", "complete", "raise"}
         /\ Called("deploy_full") /\ i + 4 <= Len(hist) =>
              /\ IsError(i + 3, "Deployment failed: Could not deploy library")
              /\ IsRetVal(i + 4, "deploy_full", FALSE)
  /\ \A i \in HistIdx :
       IsRaise(i, "_copy_to_slave") =>
         /\ hist[i].exc = "TransferError"
         /\ \/ /\ IsComplete(i - 1)
               /\ hist[i - 1].kind = "rsync"
               /\ hist[i - 1].raised \in {"TimeoutExpired", "OSError"}
            \/ IsRaise(i - 1, "_ssh_command")

\* rsync exited non-zero in a run of deploy_full, which is over.
C10_Witness ==
  /\ Done
  /\ Len(hist) > 0
  /\ TopOp = "deploy_full"
  /\ \E i \in HistIdx : RsyncExitedNonZero(i)
  /\ Returned("deploy_full", FALSE)

\* ------------------------------------------------------------------ C11
IsRsyncIssue(i) == IsIssue(i) /\ hist[i].kind = "rsync"

\* The command that creates the parent directory of the remote library file.
ParentMkdir(path) == <<"mkdir", "-p", ShlexQuote(path)>>

\* C11: rsync is started only right after the mkdir of the remote parent
\* directory, issued by the same _copy_to_slave, came back with exit code 0;
\* when that mkdir exits non-zero _copy_to_slave returns false at once, when
\* it raises _copy_to_slave raises TransferError at once, and in both cases
\* no transfer is started in the rest of the run.
C11_NoTransferWithoutParentDir ==
  /\ \A i \in HistIdx :
       IsRsyncIssue(i) =>
         /\ i > 4
         /\ IsSuccess(i - 1)
         /\ hist[i - 1].kind = "ssh"
         /\ IsIssue(i - 2)
         /\ hist[i - 2].cmd = ParentMkdir(deploy_path)
         /\ IsCall(i - 3, "_ssh_command")
         /\ IsCall(i - 4, "_copy_to_slave")
  /\ \A c \in HistIdx :
       IsCall(c, "_copy_to_slave") /\ c + 3 <= Len(hist) /\ IsFailure(c + 3) =>
         /\ \A j \in HistIdx : j > c => ~IsRsyncIssue(j)
         /\ c + 4 <= Len(hist) =>
              IF hist[c + 3].raised = "none"
              THEN IsRetVal(c + 4, "_copy_to_slave", FALSE)
              ELSE /\ IsRaise(c + 4, "_ssh_command")
                   /\ c + 5 <= Len(hist) => IsRaise(c + 5, "_copy_to_slave")

\* The parent mkdir exited non-zero; deploy_library is over and no rsync was
\* started.
C11_Witness ==
  /\ Done
  /\ Len(hist) > 0
  /\ TopOp = "deploy_library"
  /\ \E c \in HistIdx :
       /\ IsCall(c, "_copy_to_slave")
       /\ c + 3 <= Len(hist)
       /\ IsFailure(c + 3)
       /\ hist[c + 3].raised = "none"
  /\ \A j \in HistIdx : ~IsRsyncIssue(j)

\* ------------------------------------------------------------------ C12
\* The methods update_library must not run.
NotForUpdate ==
  { "check_connectivity", "create_directories", "initialize_protection",
    "verify_deployment", "is_deployed", "deploy_full" }

\* The history is a run of update_library, called directly or by main.
UpdateRun ==
  /\ Len(hist) > 0
  /\ \/ TopOp = "update_library"
     \/ TopOp = "main" /\ ~cli.check_only /\ cli.update_only

\* C12: a run of update_library invokes deploy_library and nothing else of
\* the deployment: no create_directories, initialize_protection or
\* verify_deployment, no mkdir of the state or log directory, no
\* initialization command and no test probe; and what update_library returns
\* is the boolean deploy_library has just returned.
C12_UpdateRunsOnlyDeployLibrary ==
  UpdateRun =>
    /\ \A i \in HistIdx :
         /\ \A fn \in NotForUpdate : ~IsCall(i, fn)
         /\ IsIssue(i) =>
              /\ hist[i].cmd # <<"mkdir", "-p", DEFAULT_STATE_DIR>>
              /\ hist[i].cmd # <<"mkdir", "-p", "/var/log">>
              /\ hist[i].cmd # InitCommand(deploy_path)
              /\ hist[i].cmd[1] \notin {"test", "source", "echo"}
         /\ IsCall(i, "update_library") /\ i < Len(hist) =>
              IsCall(i + 1, "deploy_library")
         /\ IsRet(i, "update_library") =>
              /\ IsRet(i - 1, "deploy_library")
              /\ hist[i].val = hist[i - 1].val
    /\ \A i, j \in HistIdx :
         IsCall(i, "deploy_library") /\ IsCall(j, "deploy_library") => i = j

\* update_library has run the mkdir, the parent mkdir, rsync and chmod and has
\* returned the true deploy_library returned.
C12_Witness ==
  /\ Done
  /\ Len(hist) > 0
  /\ TopOp = "update_library"
  /\ Len(IssuedBetween(0, Len(hist))) = 4
  /\ IsRetVal(Len(hist), "update_library", TRUE)
  /\ IsRetVal(Len(hist) - 1, "deploy_library", TRUE)

\* update_library has returned the false of a deploy_library that stopped at
\* its first mkdir.
C12_WitnessFalse ==
  /\ Done
  /\ Len(hist) > 0
  /\ TopOp = "update_library"
  /\ Len(IssuedBetween(0, Len(hist))) = 1
  /\ IsRetVal(Len(hist), "update_library", FALSE)

\* ------------------------------------------------------------------ C13
\* main has returned its exit code.
MainDone == Done /\ Len(hist) > 0 /\ TopOp = "main"

CheckOnlyMode == cli.check_only

UpdateOnlyMode == ~cli.check_only /\ cli.update_only

FullMode == ~cli.check_only /\ ~cli.update_only

\* update-only and full mode: the exit code is 0 exactly when the one method
\* the mode runs returned true.
ExitFollowsMethod ==
  /\ UpdateOnlyMode => ((exit_code = 0) <=> Returned("update_library", TRUE))
  /\ FullMode => ((exit_code = 0) <=> Returned("deploy_full", TRUE))

\* C13 as stated: main's exit code is 0 or 1; in check-only mode it is 0 when
\* is_deployed returned true and 1 when it returned false; in update-only
\* mode it is 0 exactly when update_library returned true; in full mode it is
\* 0 exactly when deploy_full returned true.
C13_ExitCodeAsStated ==
  MainDone =>
    /\ exit_code \in {0, 1}
    /\ CheckOnlyMode =>
         /\ Returned("is_deployed", TRUE) => exit_code = 0
         /\ Returned("is_deployed", FALSE) => exit_code = 1
    /\ ExitFollowsMethod

\* C13 amended: as stated, except that in check-only mode the exit code is 0
\* exactly when is_deployed returned true and the verify_deployment main runs
\* next reported all checks passed; it is 1 when is_deployed returned false
\* (verify_deployment is not run then) and 1 when the verification failed.
C13_ExitCode ==
  MainDone =>
    /\ exit_code \in {0, 1}
    /\ CheckOnlyMode =>
         /\ (exit_code = 0) <=>
              (Returned("is_deployed", TRUE) /\ Returned("verify_deployment", TRUE))
         /\ Returned("is_deployed", FALSE) =>
              exit_code = 1 /\ ~Called("verify_deployment")
         /\ Returned("is_deployed", TRUE) => Called("verify_deployment")
    /\ ExitFollowsMethod

\* Check-only mode: is_deployed returned true, the verification that followed
\* failed, and main returned 1.
C13_Witness ==
  /\ MainDone
  /\ CheckOnlyMode
  /\ Returned("is_deployed", TRUE)
  /\ Returned("verify_deployment", FALSE)
  /\ exit_code = 1

\* ------------------------------------------------------------------ C14
\* The three mkdir commands in the order of the list at lines 176-180.
MkdirOrder(path) ==
  << <<"mkdir", "-p", path>>,
     <<"mkdir", "-p", DEFAULT_STATE_DIR>>,
     <<"mkdir", "-p", "/var/log">> >>

\* C14: create_directories never raises; the commands it issues are a prefix
\* of (mkdir deploy path, mkdir state directory, mkdir log directory); a
\* mkdir that exits non-zero or raises is the last one issued and is followed
\* at once by the return of false; create_directories returns true exactly
\* when all three were issued and each exited 0.
C14_CreateDirectoriesOrdered ==
  /\ \A i \in HistIdx : ~IsRaise(i, "create_directories")
  /\ \A c \in HistIdx :
       IsCall(c, "create_directories") =>
         LET r == EndOf(c, "create_directories")
             cmds == IssuedBetween(c, r)
             made == CompletedBetween(c, r)
             ok(k) == made[k].raised = "none" /\ made[k].code = 0
         IN  /\ IsPrefix(cmds, MkdirOrder(deploy_path))
             /\ \A k \in 1..Len(made) : ~ok(k) => k = Len(cmds)
             /\ \A i \in (c + 1)..r :
                  IsFailure(i) /\ i < Len(hist) =>
                    \/ IsRetVal(i + 1, "create_directories", FALSE)
                    \/ /\ IsRaise(i + 1, "_ssh_command")
                       /\ i + 1 < Len(hist) =>
                            IsRetVal(i + 2, "create_directories", FALSE)
             /\ IsRet(r, "create_directories") =>
                  hist[r].val = (Len(made) = 3 /\ \A k \in 1..3 : ok(k))

\* create_directories made the deploy path, failed on the state directory
\* with a channel error, returned false and never asked for the log
\* directory.
C14_Witness ==
  /\ Done
  /\ Len(hist) > 0
  /\ TopOp = "create_directories"
  /\ Len(IssuedBetween(0, Len(hist))) = 2
  /\ CompletedBetween(0, Len(hist))[1].code = 0
  /\ CompletedBetween(0, Len(hist))[2].raised # "none"
  /\ IsRetVal(Len(hist), "create_directories", FALSE)

\* create_directories issued the three mkdir commands and returned true.
C14_WitnessAll ==
  /\ Done
  /\ Len(hist) > 0
  /\ TopOp = "create_directories"
  /\ IssuedBetween(0, Len(hist)) = MkdirOrder(deploy_path)
  /\ IsRetVal(Len(hist), "create_directories", TRUE)

\* ------------------------------------------------------------------ C15
\* The history is a run of deploy_full, called directly or by main.
DeployRun ==
  /\ Len(hist) > 0
  /\ \/ TopOp = "deploy_full"
     \/ TopOp = "main" /\ FullMode

\* The five steps of deploy_full in the order of lines 350-380.
StepOrder ==
  << "check_connectivity", "create_directories", "deploy_library",
     "initialize_protection", "verify_deployment" >>

\* The steps entered so far, in the order they were entered.
StepsEntered ==
  LET StepCall(e) ==
        e.ev = "call" /\ \E k \in 1..Len(StepOrder) : e.fn = StepOrder[k]
      cut == SelectSeq(hist, StepCall)
  IN  [k \in 1..Len(cut) |-> cut[k].fn]

\* The thirteen remote operations of a whole deployment.
FullSequence(path) ==
  << <<"echo", "test">> >>
    \o MkdirOrder(path)
    \o << <<"mkdir", "-p", path>>,
          ParentMkdir(path),
          RsyncCmd(LocalLibraryFile, RemoteLibraryFile(path)),
          <<"chmod", "+x", path, LibraryName>>,
          InitCommand(path) >>
    \o VerifyProbes(path)

\* C15: in a run of deploy_full the remote operations issued so far are a
\* prefix of the fixed sequence (echo; mkdir deploy path, state directory, log
\* directory; mkdir deploy path; mkdir remote parent directory; rsync; chmod;
\* initialization; the four probes); the steps entered so far are a prefix of
\* (check_connectivity, create_directories, deploy_library,
\* initialize_protection, verify_deployment), so none is entered twice or out
\* of order; and every operation issued has completed before the next event
\* of the run, so before the next one is issued.
C15_LinearSequence ==
  DeployRun =>
    /\ IsPrefix(IssuedBetween(0, Len(hist)), FullSequence(deploy_path))
    /\ IsPrefix(StepsEntered, StepOrder)
    /\ \A i \in HistIdx :
         /\ IsIssue(i) /\ i < Len(hist) =>
              IsComplete(i + 1) /\ hist[i + 1].kind = hist[i].kind
         /\ IsComplete(i) => i > 1 /\ IsIssue(i - 1)
    /\ \A i \in HistIdx : ~IsCall(i, "is_deployed") /\ ~IsCall(i, "update_library")

\* deploy_full on the deploy path with a space issued all thirteen operations
\* in order and returned false after the verification.
C15_Witness ==
  /\ Done
  /\ DeployRun
  /\ TopOp = "deploy_full"
  /\ deploy_path = SpacedPath
  /\ IssuedBetween(0, Len(hist)) = FullSequence(deploy_path)
  /\ StepsEntered = StepOrder
  /\ IsRetVal(Len(hist), "deploy_full", FALSE)

\* ------------------------------------------------------------------ C16
\* What one probe can come to: an exit code or a channel error.
ProbeOutcomes ==
  [raised : {"none"}, code : ExitCodes] \cup [raised : {"Exception"}, code : {-1}]

ProbeSet(path) == { VerifyProbes(path)[k] : k \in 1..4 }

\* A deployer facing a remote host whose state does not change: each of the
\* four probes has one outcome, whoever issues it and however often.
FixedHostInit ==
  /\ pc = "idle"
  /\ stack = <<>>
  /\ arg = NoArg
  /\ copy_arg = NoCopyArg
  /\ exc = "none"
  /\ rv = FALSE
  /\ res = NoResult
  /\ stdout = <<>>
  /\ iter = <<>>
  /\ checks = <<>>
  /\ all_passed = FALSE
  /\ report = NoReport
  /\ exit_code = -1
  /\ cli = NoCli
  /\ deploy_path \in DeployPaths
  /\ local_lib_path_exists \in BOOLEAN
  /\ library_file_exists \in BOOLEAN
  /\ library_file_exists => local_lib_path_exists
  /\ host \in [ProbeSet(deploy_path) -> ProbeOutcomes]
  /\ hist = <<>>

\* run_command on the fixed host: the step of SshCommandReturn whose outcome
\* is the one the host has for the command.
FixedHostReturn ==
  /\ arg.command \in DOMAIN host
  /\ SshCommandReturn
  /\ hist'[Len(hist) + 1].raised = host[arg.command].raised
  /\ hist'[Len(hist) + 1].code = host[arg.command].code

\* The caller asks is_deployed ...
CompareStart ==
  /\ pc = "idle"
  /\ Call("is_deployed", "compare_verify", arg)
  /\ UNCHANGED <<data, fixed>>

\* ... and then verify_deployment, whatever is_deployed answered.
CompareVerify ==
  /\ pc = "compare_verify"
  /\ Call("verify_deployment", "done", arg)
  /\ UNCHANGED <<data, fixed>>

FixedHostNext ==
  \/ CompareStart
  \/ CompareVerify
  \/ SshCommandCall
  \/ FixedHostReturn
  \/ IsDeployedStart
  \/ IsDeployedNext
  \/ IsDeployedResult
  \/ VerifyDeploymentStart
  \/ VerifyDeploymentCheck1
  \/ VerifyDeploymentCheck2
  \/ VerifyDeploymentCheck3
  \/ VerifyDeploymentCheck4

FixedHostSpec == FixedHostInit /\ [][FixedHostNext]_vars

\* Check k of the report verify_deployment returned has passed.
CheckPassed(k) == report.checks[k][1] = "ok"

\* The fixed host answers probe k of verify_deployment with exit code 0.
HostPasses(k) ==
  LET o == host[VerifyProbes(deploy_path)[k]]
  IN  o.raised = "none" /\ o.code = 0

\* is_deployed and then verify_deployment have both returned.
BothAnswered ==
  /\ Done
  /\ Len(hist) > 0
  /\ TopOp = "is_deployed"
  /\ Called("verify_deployment")

IsDeployedAnswer == hist[EndOf(1, "is_deployed")].val

\* C16: against a host with one fixed outcome (exit 0, non-zero exit, channel
\* error) per probe, is_deployed returns true exactly when the first three
\* checks of verify_deployment pass, whatever the fourth does; so when
\* is_deployed is true and all_passed is false, the state-directory check is
\* the one that failed.
C16_IsDeployedAgrees ==
  BothAnswered =>
    /\ IsRet(EndOf(1, "is_deployed"), "is_deployed")
    /\ Len(report.checks) = 4
    /\ \A k \in 1..4 : CheckPassed(k) <=> HostPasses(k)
    /\ IsDeployedAnswer <=> \A k \in 1..3 : CheckPassed(k)
    /\ IsDeployedAnswer /\ ~report.all_passed =>
         ~CheckPassed(4) /\ \A k \in 1..3 : CheckPassed(k)

\* The first three probes exit 0 and the state-directory probe does not:
\* is_deployed returned true and verify_deployment reported a failure.
C16_Witness ==
  /\ BothAnswered
  /\ IsDeployedAnswer
  /\ ~report.all_passed
  /\ ~HostPasses(4)

\* The library probe fails on the host: is_deployed returned false after two
\* probes and verify_deployment ran all four.
C16_WitnessFalse ==
  /\ BothAnswered
  /\ ~IsDeployedAnswer
  /\ HostPasses(1) /\ ~HostPasses(2) /\ HostPasses(3) /\ HostPasses(4)
  /\ Len(IssuedBetween(0, Len(hist))) = 6

\* ------------------------------------------------------------------ C17
\* The two query methods.
Queries == {"is_deployed", "verify_deployment"}

\* Event i is the issue of an existence or executability probe: a `test -d`,
\* `test -x` or `test -f` sent over ssh.
IsProbeIssue(i) ==
  /\ IsIssue(i)
  /\ hist[i].kind = "ssh"
  /\ hist[i].cmd[1] = "test"
  /\ hist[i].cmd[2] \in {"-d", "-x", "-f"}

\* The history is a run of a query, or of main in check-only mode.
QueryRun ==
  /\ Len(hist) > 0
  /\ \/ TopOp \in Queries
     \/ TopOp = "main" /\ CheckOnlyMode

\* The methods that change the remote host.
Changers ==
  { "create_directories", "deploy_library", "_copy_to_slave",
    "initialize_protection", "update_library", "deploy_full" }

\* C17: whatever is issued between the call and the end of is_deployed or
\* verify_deployment is a test probe, and in a run of one of them or of main
\* in check-only mode nothing but test probes is issued at all: no mkdir, no
\* rsync, no chmod, no initialization command, and no method that issues one
\* is called.
C17_QueriesReadOnly ==
  /\ \A c \in HistIdx :
       (\E q \in Queries : IsCall(c, q)) =>
         \A i \in c..EndOf(c, hist[c].fn) : IsIssue(i) => IsProbeIssue(i)
  /\ QueryRun =>
       \A i \in HistIdx :
         /\ IsIssue(i) => IsProbeIssue(i)
         /\ \A fn \in Changers : ~IsCall(i, fn)

\* main in check-only mode ran is_deployed and verify_deployment to the end:
\* seven commands, all of them probes.
C17_Witness ==
  /\ MainDone
  /\ CheckOnlyMode
  /\ Len(IssuedBetween(0, Len(hist))) = 7
  /\ \A i \in HistIdx : IsIssue(i) => IsProbeIssue(i)

\* ------------------------------------------------------------------ C18
IsSshIssue(i) == IsIssue(i) /\ hist[i].kind = "ssh"

\* Event i issues a directory or file command or a verification probe.
IsFileCommand(i) ==
  IsSshIssue(i) /\ hist[i].cmd[1] \in {"mkdir", "chmod", "test"}

\* Event i issues the initialization command.
IsInitCommand(i) == IsSshIssue(i) /\ hist[i].cmd[1] = "source"

\* Event i issues the connectivity probe.
IsConnectivityProbe(i) == IsSshIssue(i) /\ hist[i].cmd[1] = "echo"

\* The timeouts the commands starting with one of the words were issued with.
TimeoutsOf(words) ==
  { hist[i].timeout : i \in { k \in HistIdx : IsSshIssue(k) /\ hist[k].cmd[1] \in words } }

FileTimeouts == TimeoutsOf({"mkdir", "chmod", "test"})

InitTimeouts == TimeoutsOf({"source"})

ConnectivityTimeouts == TimeoutsOf({"echo"})

\* C18: every remote command is issued with a positive timeout of its own,
\* the one run_command is then waiting with; the timeout of a mkdir, chmod or
\* test is strictly shorter than that of the initialization command, which is
\* strictly shorter than that of the connectivity probe; and the timeout of a
\* command depends on the kind of command alone, not on the calls before it.
C18_TimeoutOrder ==
  /\ \A i \in HistIdx :
       IsSshIssue(i) =>
         /\ hist[i].timeout > 0
         /\ IsFileCommand(i) \/ IsInitCommand(i) \/ IsConnectivityProbe(i)
  /\ pc = "run_command" =>
       /\ IsSshIssue(Len(hist))
       /\ arg.timeout = hist[Len(hist)].timeout
  /\ \A a \in FileTimeouts : \A b \in InitTimeouts : a < b
  /\ \A b \in InitTimeouts : \A c \in ConnectivityTimeouts : b < c
  /\ \A a \in FileTimeouts : \A c \in ConnectivityTimeouts : a < c
  /\ \A w \in {"mkdir", "chmod", "test", "source", "echo"} :
       Cardinality(TimeoutsOf({w})) <= 1

\* A deployment that reached the verification: the connectivity probe, a
\* mkdir, the chmod, the initialization command and a test were all issued.
C18_Witness ==
  /\ DeployRun
  /\ \A w \in {"mkdir", "chmod", "test", "source", "echo"} :
       TimeoutsOf({w}) # {}
  /\ \E a \in FileTimeouts : \E b \in InitTimeouts :
       \E c \in ConnectivityTimeouts : a < b /\ b < c

====
